---- MODULE Spec2Model ----
(***************************************************************************)
(* RTO-Validator: the client's coverage scoring (tokenize, coverageCheck,  *)
(* buildReportFromTGA) and the client's state machine (handleUpload,       *)
(* validate, unit selection), modelled from client/src/App.jsx.            *)
(*                                                                         *)
(* Text that the code takes apart (assessment text, requirement text,      *)
(* labels, unit codes) is a sequence of one-character strings, so that     *)
(* tokenize, template strings and slice are computed rather than assumed.  *)
(* Titles and messages, which the client only copies, are plain strings.   *)
(* A JavaScript value that is undefined, null or "" where the code only    *)
(* tests truthiness is the empty sequence / the empty string.              *)
(***************************************************************************)
EXTENDS Integers, Sequences, FiniteSets, TLC

VARIABLES
    \* ---- React state of App (App.jsx 52-63) ----
    activeTab, assessmentFile, assessmentText, detectedUoCs,
    reports, activeReportIdx, isProcessing, uploadError,
    \* ---- requests in flight ----
    uploads,        \* POST /api/extract calls awaiting their response
    nextUpload,     \* number of uploads started so far
    run,            \* the validate call awaiting Promise.allSettled
    published,      \* what the step just taken did to reports: "none", or the
                    \* branch of validate that ended ("noUoc", "lookups", "throws")
    \* ---- inputs and output of a stand-alone coverageCheck call ----
    covText, covTargets, covResult,
    \* ---- the two coverage percentages of one report and that report ----
    scPc, scKe, scReport,
    \* ---- a body of GET /api/uoc/:code and what buildReportFromTGA makes of it
    rpPayload, rpReport,
    \* ---- server: the Map of getUocPayload and the calls of GET /api/uoc/:code
    cache, requests

clientVars == <<activeTab, assessmentFile, assessmentText, detectedUoCs,
                reports, activeReportIdx, isProcessing, uploadError,
                uploads, nextUpload, run, published>>
covVars == <<covText, covTargets, covResult>>
scoreVars == <<scPc, scKe, scReport>>
reportVars == <<rpPayload, rpReport>>
serverVars == <<cache, requests>>
\* what the handlers of App do not touch
besideClient == <<covVars, scoreVars, reportVars, serverVars>>
\* what a call of coverageCheck, the scoring, a call of buildReportFromTGA
\* do not touch
besideCov == <<clientVars, scoreVars, reportVars, serverVars>>
besideScore == <<clientVars, covVars, reportVars, serverVars>>
besideReport == <<clientVars, covVars, scoreVars, serverVars>>
\* what the server does not touch
besideServer == <<clientVars, covVars, scoreVars, reportVars>>
vars == <<activeTab, assessmentFile, assessmentText, detectedUoCs,
          reports, activeReportIdx, isProcessing, uploadError,
          uploads, nextUpload, run, published,
          covText, covTargets, covResult,
          scPc, scKe, scReport,
          rpPayload, rpReport,
          cache, requests>>

\* ------------------------------------------------------------------ bounds
MaxTargets == 3     \* longest requirement list handed to coverageCheck
MaxCodes == 2       \* most unit codes one upload detects
MaxUploads == 2     \* uploads started in one behaviour
MaxAppended == 2    \* entries added to each list of a payload
MissingAtStart == 4 \* uncovered entries a long list of a payload starts with
MaxRequests == 3    \* calls of GET /api/uoc/:code in one behaviour

\* ------------------------------------------------- text coverage helpers
UpperChars == <<"A","B","C","D","E","F","G","H","I","J","K","L","M",
                "N","O","P","Q","R","S","T","U","V","W","X","Y","Z">>
LowerChars == <<"a","b","c","d","e","f","g","h","i","j","k","l","m",
                "n","o","p","q","r","s","t","u","v","w","x","y","z">>
DigitChars == <<"0","1","2","3","4","5","6","7","8","9">>

Range(s) == { s[i] : i \in DOMAIN s }

\* String.prototype.toLowerCase, one character
toLowerCase(c) ==
    IF \E i \in DOMAIN UpperChars : UpperChars[i] = c
    THEN LowerChars[CHOOSE i \in DOMAIN UpperChars : UpperChars[i] = c]
    ELSE c

\* \s of the regular expressions
IsSpace(c) == c \in {" ", "\t", "\n"}

\* .toLowerCase().replace(/[^a-z0-9\s]/g, " ")
Normalize(t) ==
    [i \in 1..Len(t) |->
        LET c == toLowerCase(t[i])
        IN IF c \in Range(LowerChars) \cup Range(DigitChars) \/ IsSpace(c)
           THEN c ELSE " "]

\* .split(/\s+/): the pieces between runs of whitespace, the empty pieces
\* at either end included
RECURSIVE SplitWs(_, _, _)
SplitWs(s, i, cur) ==
    IF i > Len(s) THEN <<cur>>
    ELSE IF IsSpace(s[i])
         THEN IF i > 1 /\ IsSpace(s[i-1])
              THEN SplitWs(s, i + 1, cur)
              ELSE <<cur>> \o SplitWs(s, i + 1, <<>>)
         ELSE SplitWs(s, i + 1, Append(cur, s[i]))

STOP == {
    <<"t","h","e">>, <<"a","n","d">>, <<"a">>, <<"a","n">>, <<"f","o","r">>,
    <<"t","o">>, <<"o","f">>, <<"i","n">>, <<"o","n">>, <<"b","y">>,
    <<"w","i","t","h">>, <<"a","s">>, <<"t","h","a","t">>, <<"a","r","e">>,
    <<"i","s">>, <<"b","e">>, <<"o","r">>, <<"a","t">>,
    <<"f","r","o","m">>, <<"t","h","i","s">>, <<"i","t">>, <<"i","n","t","o">>,
    <<"o","v","e","r">>, <<"u","n","d","e","r">>, <<"u","p">>,
    <<"d","o","w","n">>, <<"a","c","r","o","s","s">>, <<"a","b","o","u","t">>,
    <<"b","e","t","w","e","e","n">>, <<"t","h","e","i","r">>, <<"y","o","u","r">>,
    <<"y","o","u">>, <<"w","e">>, <<"o","u","r">>, <<"t","h","e","y">> }

IsToken(w) == w # <<>> /\ w \notin STOP

tokenize(t) == SelectSeq(SplitWs(Normalize(t), 1, <<>>), IsToken)

\* Math.floor in the place of Math.round
MathFloorDiv(num, den) == num \div den

\* Math.round(num / den) for num >= 0, den > 0: halves round up
MathRoundDiv(num, den) == (2 * num + den) \div (2 * den)

\* Math.round left out: the quotient cut off
SufficiencyCutOff(pc, ke) == (6 * pc + 4 * ke) \div 10

\* slice(0, 5) left out
WholeList(s) == s

\* the filter without its description part
HasPcCode(p) == p.pcCode # <<>>

\* ratio > 0.35 in the place of ratio >= 0.35
RatioCoversStrictly(present, keyLen) == present * 100 > 35 * keyLen

\* ratio >= 0.35, with ratio = present / keyLen
RatioCovers(present, keyLen) == present * 100 >= 35 * keyLen

\* t.code || t.text.slice(0, 60)
MissingLabel(t) ==
    IF t.code # <<>> THEN t.code
    ELSE SubSeq(t.text, 1, IF Len(t.text) < 60 THEN Len(t.text) ELSE 60)

\* key.filter((k) => textTokens.has(k)).length
PresentCount(key, textTokens) ==
    Len(SelectSeq(key, LAMBDA k : k \in textTokens))

\* the loop of coverageCheck over targets[1..n]: <<covered, missing>>
RECURSIVE CoverageLoop(_, _, _)
CoverageLoop(textTokens, targets, n) ==
    IF n = 0 THEN [covered |-> 0, missing |-> <<>>]
    ELSE LET acc == CoverageLoop(textTokens, targets, n - 1)
             t == targets[n]
             key == tokenize(t.text)
         IN IF Len(key) = 0 THEN acc
            ELSE IF RatioCovers(PresentCount(key, textTokens), Len(key))
                 THEN [acc EXCEPT !.covered = @ + 1]
                 ELSE [acc EXCEPT !.missing = Append(@, MissingLabel(t))]

\* covered += present in the place of covered += 1
RECURSIVE TokenCountLoop(_, _, _)
TokenCountLoop(textTokens, targets, n) ==
    IF n = 0 THEN 0
    ELSE TokenCountLoop(textTokens, targets, n - 1)
         + PresentCount(tokenize(targets[n].text), textTokens)

coverageCheckCountsTokens(fullText, targets) ==
    LET textTokens == Range(tokenize(fullText))
        acc == CoverageLoop(textTokens, targets, Len(targets))
        covered == TokenCountLoop(textTokens, targets, Len(targets))
    IN [ total |-> Len(targets),
         assessed |-> covered,
         percentage |-> IF Len(targets) # 0
                        THEN MathRoundDiv(covered * 100, Len(targets))
                        ELSE 0,
         missing |-> acc.missing ]

coverageCheck(fullText, targets) ==
    LET textTokens == Range(tokenize(fullText))
        acc == CoverageLoop(textTokens, targets, Len(targets))
    IN [ total |-> Len(targets),
         assessed |-> acc.covered,
         percentage |-> IF Len(targets) # 0
                        THEN MathRoundDiv(acc.covered * 100, Len(targets))
                        ELSE 0,
         missing |-> acc.missing ]

\* -------------------------------------------------- buildReportFromTGA
\* a || b for strings
OrElse(a, b) == IF a # "" THEN a ELSE b

\* the decimal digits of n >= 0, as `${n}` writes them
RECURSIVE ToDigits(_)
ToDigits(n) ==
    IF n < 10 THEN <<DigitChars[n + 1]>>
    ELSE ToDigits(n \div 10) \o <<DigitChars[(n % 10) + 1]>>

\* the unit of the report: the nested shape, else the top-level fields
NormalizeUnit(tgaPayload) ==
    IF tgaPayload.unit.code # <<>>
    THEN [code |-> tgaPayload.unit.code,
          title |-> OrElse(tgaPayload.unit.title, OrElse(tgaPayload.title, "")),
          url |-> tgaPayload.url]
    ELSE [code |-> tgaPayload.code,
          title |-> OrElse(tgaPayload.title, ""),
          url |-> tgaPayload.url]

HasPcFields(p) == p.pcCode # <<>> /\ p.description # <<>>

\* list || [], for a list that is an array or is absent
OrEmpty(shape, list) == IF shape = "absent" THEN <<>> ELSE list

\* (elementsAndPC || []).filter(...).map(...)
PcItems(tgaPayload) ==
    LET kept == SelectSeq(OrEmpty(tgaPayload.pcShape, tgaPayload.elementsAndPC),
                          HasPcFields)
    IN [i \in 1..Len(kept) |->
            [code |-> <<"P", "C", " ">> \o kept[i].pcCode,
             text |-> kept[i].description]]

\* (knowledgeEvidence || []).map((t, i) => ({code: `K${i + 1}`, text: t}))
KeItems(tgaPayload) ==
    LET list == OrEmpty(tgaPayload.keShape, tgaPayload.knowledgeEvidence)
    IN [i \in 1..Len(list) |->
            [code |-> <<"K">> \o ToDigits(i), text |-> list[i]]]

Min(a, b) == IF a < b THEN a ELSE b

\* Math.min(100, Math.round(pc * 0.6 + ke * 0.4))
Sufficiency(pc, ke) == Min(100, MathRoundDiv(6 * pc + 4 * ke, 10))

ValidityStatus(validity) ==
    IF validity >= 85 THEN "pass" ELSE IF validity >= 70 THEN "warning" ELSE "fail"

SufficiencyStatus(sufficiency) ==
    IF sufficiency >= 90 THEN "pass"
    ELSE IF sufficiency >= 75 THEN "warning" ELSE "fail"

\* arr.slice(0, 5)
FirstFive(s) == SubSeq(s, 1, Min(5, Len(s)))

PcGap(pc) ==
    [type |-> "critical", element |-> pc,
     description |-> "Performance criterion not clearly evidenced in assessment text.",
     recommendation |-> "Add/clarify an assessment task or marking checklist item for this PC.",
     priority |-> "HIGH"]

KeGap(k) ==
    [type |-> "improvement", element |-> k,
     description |-> "Knowledge evidence coverage could be strengthened.",
     recommendation |-> "Add a short-answer/scenario question to explicitly test this knowledge.",
     priority |-> "MEDIUM"]

BuildGaps(pcCov, keCov) ==
    [i \in 1..Len(FirstFive(pcCov.missing)) |-> PcGap(pcCov.missing[i])]
    \o [i \in 1..Len(FirstFive(keCov.missing)) |-> KeGap(keCov.missing[i])]

\* the part of buildReportFromTGA after the two coverage checks: the scores,
\* their statuses and the gaps
ScoreReport(unit, pcCov, keCov) ==
    LET sufficiency == Sufficiency(pcCov.percentage, keCov.percentage)
        validity == pcCov.percentage
    IN [ unit |-> unit,
         coverage |-> [performanceCriteria |-> pcCov, knowledge |-> keCov],
         rulesOfEvidence |->
            [validity |-> [status |-> ValidityStatus(validity), score |-> validity],
             sufficiency |-> [status |-> SufficiencyStatus(sufficiency),
                              score |-> sufficiency],
             authenticity |-> [status |-> "pass", score |-> 100],
             currency |-> [status |-> "pass", score |-> 100]],
         principlesOfAssessment |->
            [fairness |-> [status |-> "pass", score |-> 95],
             flexibility |-> [status |-> "pass", score |-> 90],
             validity |-> [status |-> ValidityStatus(validity), score |-> validity],
             reliability |-> [status |-> "pass", score |-> 92]],
         gaps |-> BuildGaps(pcCov, keCov) ]

\* buildReportFromTGA, with the assessmentText its closure holds
buildReportFromTGA(tgaPayload, text) ==
    ScoreReport(NormalizeUnit(tgaPayload),
                coverageCheck(text, PcItems(tgaPayload)),
                coverageCheck(text, KeItems(tgaPayload)))

\* the payload makes buildReportFromTGA throw: elementsAndPC or
\* knowledgeEvidence is truthy and no array, so .filter or .map is not a
\* function
BuildThrows(tgaPayload) ==
    tgaPayload.pcShape = "object" \/ tgaPayload.keShape = "object"

\* ------------------------------------------- the fixed reports of validate
ZeroCoverage == [total |-> 0, assessed |-> 0, percentage |-> 0, missing |-> <<>>]

FailedRules ==
    [validity |-> [status |-> "fail", score |-> 0],
     sufficiency |-> [status |-> "fail", score |-> 0],
     authenticity |-> [status |-> "warning", score |-> 50],
     currency |-> [status |-> "warning", score |-> 50]]

FailedPrinciples ==
    [fairness |-> [status |-> "warning", score |-> 50],
     flexibility |-> [status |-> "warning", score |-> 50],
     validity |-> [status |-> "fail", score |-> 0],
     reliability |-> [status |-> "warning", score |-> 50]]

\* the no-UoC report with its gap left out
NoUocReportWithoutGap ==
    [ unit |-> [code |-> <<"N", "/", "A">>, title |-> "No UoC detected"],
      coverage |-> [performanceCriteria |-> ZeroCoverage, knowledge |-> ZeroCoverage],
      rulesOfEvidence |-> FailedRules,
      principlesOfAssessment |-> FailedPrinciples,
      gaps |-> <<>> ]

\* the report of validate's branch for no detected code
NoUocReport ==
    [ unit |-> [code |-> <<"N", "/", "A">>, title |-> "No UoC detected"],
      coverage |-> [performanceCriteria |-> ZeroCoverage, knowledge |-> ZeroCoverage],
      rulesOfEvidence |-> FailedRules,
      principlesOfAssessment |-> FailedPrinciples,
      gaps |-> << [type |-> "critical", element |-> <<"U", "o", "C">>,
                   description |-> "No valid UoC detected in document.",
                   recommendation |-> "Ensure the assessment references the correct Unit code(s) per Training.gov.au.",
                   priority |-> "HIGH"] >> ]

\* the report of validate for a code whose lookup gave nothing usable
LookupFailedReport(code) ==
    [ unit |-> [code |-> code, title |-> "No TGA details available"],
      coverage |-> [performanceCriteria |-> ZeroCoverage, knowledge |-> ZeroCoverage],
      rulesOfEvidence |-> FailedRules,
      principlesOfAssessment |-> FailedPrinciples,
      gaps |-> << [type |-> "critical", element |-> code,
                   description |-> "Could not fetch details from training.gov.au for this code.",
                   recommendation |-> "Check the unit code or try again later.",
                   priority |-> "HIGH"] >> ]

\* ------------------------------------------------------------- inputs
\* unit codes a document can mention
MARN008 == <<"M","A","R","N","0","0","8">>
BSBOPS201 == <<"B","S","B","O","P","S","2","0","1">>
HLTAID011 == <<"H","L","T","A","I","D","0","1","1">>
CodePool == <<MARN008, BSBOPS201, HLTAID011>>

TextDeckKnot == <<"D","e","c","k",","," ","k","n","o","t",".">>
TextTheKnotRope == <<"t","h","e"," ","k","n","o","t"," ","r","o","p","e">>
TextRope == <<"r","o","p","e">>
TextKnotRope == <<"K","n","o","t"," ","r","o","p","e">>
TextDeck == <<"d","e","c","k">>
TextMastSailHull == <<"m","a","s","t"," ","s","a","i","l"," ","h","u","l","l">>
TextStopOnly == <<"T","h","e"," ","o","f",".">>
TextHull == <<"h","u","l","l">>

RECURSIVE JoinCodes(_, _)
JoinCodes(codes, n) ==
    IF n = 0 THEN <<>> ELSE JoinCodes(codes, n - 1) \o <<" ">> \o codes[n]

\* what POST /api/extract answers for a file: its text and the codes found
\* in it, in the order in which the text names them
DocOf(codes) == [text |-> TextDeckKnot \o JoinCodes(codes, Len(codes)),
                 detected |-> codes]

Reverse(s) == [i \in 1..Len(s) |-> s[Len(s) + 1 - i]]

FilePool ==
    { DocOf(SubSeq(CodePool, 1, k)) : k \in 0..Min(MaxCodes, Len(CodePool)) }
    \cup { DocOf(Reverse(SubSeq(CodePool, 1, Min(MaxCodes, Len(CodePool))))) }

\* bodies GET /api/uoc/:code can answer with
NestedPayload(code) ==
    [ found |-> "absent", pcShape |-> "array", keShape |-> "array",
      unit |-> [code |-> code, title |-> "Unit (Mock)"],
      code |-> <<>>, title |-> "", url |-> "https://training.gov.au/Training/Details/",
      elementsAndPC |-> << [pcCode |-> <<"1",".","1">>, description |-> TextDeckKnot],
                           [pcCode |-> <<"1",".","2">>, description |-> TextMastSailHull],
                           [pcCode |-> <<>>, description |-> TextRope] >>,
      knowledgeEvidence |-> << TextKnotRope, TextStopOnly, TextHull >> ]

FlatPayload(code) ==
    [ found |-> "absent", pcShape |-> "array", keShape |-> "array",
      unit |-> [code |-> <<>>, title |-> ""],
      code |-> code, title |-> "Flat unit", url |-> "",
      elementsAndPC |-> <<>>, knowledgeEvidence |-> <<>> ]

NotFoundPayload(code) ==
    [ found |-> "false", pcShape |-> "array", keShape |-> "array",
      unit |-> [code |-> <<>>, title |-> ""],
      code |-> code, title |-> "", url |-> "",
      elementsAndPC |-> <<>>, knowledgeEvidence |-> <<>> ]

BrokenPayload(code) == [NestedPayload(code) EXCEPT !.pcShape = "object"]

Pending == [kind |-> "pending", ok |-> FALSE, parses |-> FALSE, body |-> <<>>]

NetError == [kind |-> "neterror", ok |-> FALSE, parses |-> FALSE, body |-> <<>>]
Response(ok, parses, body) ==
    [kind |-> "response", ok |-> ok, parses |-> parses, body |-> body]

\* how the fetch of /api/uoc/<code> can end.  Each code of the pool gets the
\* answers of one kind of unit: one the registry knows, one it does not
\* know, one whose answers are cut short.
LookupOutcomes(code) ==
    IF code = MARN008
    THEN { Response(TRUE, TRUE, <<NestedPayload(code)>>),
           Response(TRUE, TRUE, <<BrokenPayload(code)>>),
           Response(TRUE, TRUE, <<>>),
           NetError }
    ELSE IF code = BSBOPS201
    THEN { Response(TRUE, TRUE, <<NotFoundPayload(code)>>),
           Response(FALSE, TRUE, <<NotFoundPayload(code)>>),
           Response(TRUE, TRUE, <<FlatPayload(code)>>),
           Response(TRUE, TRUE, <<NestedPayload(code)>>) }
    ELSE { Response(TRUE, FALSE, <<>>),
           Response(TRUE, TRUE, <<NestedPayload(code)>>),
           NetError }

\* how the fetch of /api/extract can end
UploadOutcomes == { "ok", "httpError", "neterror" }

\* ---------------------------------------------------------- fetchUoc
\* the value fetchUoc resolves with: <<>> is null, <<p>> the parsed body p
fetchUoc(outcome) ==
    IF outcome.kind = "neterror" THEN <<>>      \* fetch rejects: catch
    ELSE IF ~outcome.ok THEN <<>>               \* if (!r.ok) return null
    ELSE IF ~outcome.parses THEN <<>>           \* r.json() rejects: catch
    ELSE outcome.body

\* one entry of the array Promise.allSettled resolves with
Settled(outcome) == [status |-> "fulfilled", value |-> fetchUoc(outcome)]

\* the test without its found === false part
LookupFailedIgnoresFound(settled) ==
    settled.status # "fulfilled" \/ settled.value = <<>>

\* settled.status !== "fulfilled" || !settled.value || settled.value.found === false
LookupFailed(settled) ==
    \/ settled.status # "fulfilled"
    \/ settled.value = <<>>
    \/ settled.value[1].found = "false"

\* resolving with the first lookup that settles, as Promise.race would
AnySettled(r) == \E i \in DOMAIN r.outcomes : r.outcomes[i] # Pending

\* Promise.allSettled has resolved: every lookup has settled
AllSettled(r) == \A i \in DOMAIN r.outcomes : r.outcomes[i] # Pending

\* the lookup of codes[i] may settle: all lookups were issued together
CanSettle(r, i) == r.outcomes[i] = Pending

\* results.map((settled, idx) => ...), entry idx
UnitReportAt(r, idx) ==
    LET settled == Settled(r.outcomes[idx])
    IN IF LookupFailed(settled)
       THEN LookupFailedReport(r.codes[idx])
       ELSE buildReportFromTGA(settled.value[1], r.text)

\* the reports pushed as the lookups complete
perUnitReportsInCompletionOrder(r) ==
    [k \in 1..Len(r.order) |-> UnitReportAt(r, r.order[k])]

perUnitReports(r) == [idx \in 1..Len(r.outcomes) |-> UnitReportAt(r, idx)]

\* the map callback throws for some entry
MapThrows(r) ==
    \E idx \in 1..Len(r.outcomes) :
        LET settled == Settled(r.outcomes[idx])
        IN ~LookupFailed(settled) /\ BuildThrows(settled.value[1])

NoRun == [active |-> FALSE, codes |-> <<>>, text |-> <<>>,
          outcomes |-> <<>>, order |-> <<>>]

\* ------------------------------------------------------------ rendering
\* const activeReport = reports[activeReportIdx]; the results section reads
\* activeReport.unit, which throws when activeReport is undefined
RenderThrows ==
    activeTab = "results" /\ Len(reports) > 0 /\ activeReportIdx >= Len(reports)

\* ------------------------------------------------------------- handlers
ClientInit ==
    /\ activeTab = "upload"
    /\ assessmentFile = <<>>
    /\ assessmentText = <<>>
    /\ detectedUoCs = <<>>
    /\ reports = <<>>
    /\ activeReportIdx = 0
    /\ isProcessing = FALSE
    /\ uploadError = ""
    /\ uploads = {}
    /\ nextUpload = 0
    /\ run = NoRun
    /\ published = "none"

CovIdle ==
    /\ covText = <<>>
    /\ covTargets = <<>>
    /\ covResult = coverageCheck(<<>>, <<>>)

\* what coverageCheck returns for a hundred requirements labelled prefix 1
\* to prefix 100 of which the text covers the first n
HundredOf(n, prefix) ==
    [total |-> 100, assessed |-> n,
     percentage |-> MathRoundDiv(n * 100, 100),
     missing |-> [i \in 1..(100 - n) |-> prefix \o ToDigits(n + i)]]

\* the report of a unit with a hundred performance criteria and a hundred
\* knowledge items of which the text covers pc and ke
ReportOfHundreds(pc, ke) ==
    ScoreReport([code |-> MARN008, title |-> "Unit (Mock)", url |-> ""],
                HundredOf(pc, <<"P", "C", " ">>), HundredOf(ke, <<"K">>))

ScoreIdle ==
    /\ scPc = 0
    /\ scKe = 0
    /\ scReport = ReportOfHundreds(0, 0)

\* the assessment text the reports of payloads are built against
TextOfReport == TextDeckKnot

\* an entry of elementsAndPC at position i: covered by the text, not
\* covered, without pcCode, without description
PcEntry(kind, i) ==
    [pcCode |-> IF kind = "noCode" THEN <<>> ELSE ToDigits(i),
     description |-> IF kind = "covered" THEN TextDeck
                     ELSE IF kind = "noDescription" THEN <<>>
                     ELSE TextMastSailHull]

PcEntryKinds == { "covered", "missing", "noCode", "noDescription" }

\* entries of knowledgeEvidence: covered, not covered, without any token
KeEntries == { TextDeck, TextHull, TextStopOnly }

\* a list of a payload as the answer carries it
PcListsAtStart ==
    { [shape |-> "array", list |-> <<>>],
      [shape |-> "array", list |-> [i \in 1..MissingAtStart |-> PcEntry("missing", i)]],
      [shape |-> "absent", list |-> <<>>],
      [shape |-> "object", list |-> <<>>] }

KeListsAtStart ==
    { [shape |-> "array", list |-> <<>>],
      [shape |-> "array", list |-> [i \in 1..MissingAtStart |-> TextHull]],
      [shape |-> "absent", list |-> <<>>],
      [shape |-> "object", list |-> <<>>] }

PayloadOf(pcs, kes) ==
    [ found |-> "absent", pcShape |-> pcs.shape, keShape |-> kes.shape,
      unit |-> [code |-> MARN008, title |-> "Unit (Mock)"],
      code |-> <<>>, title |-> "", url |-> "",
      elementsAndPC |-> pcs.list, knowledgeEvidence |-> kes.list ]

\* what a call of buildReportFromTGA gives: <<>> when it throws, else <<report>>
ReportOrThrow(tgaPayload, text) ==
    IF BuildThrows(tgaPayload) THEN <<>>
    ELSE <<buildReportFromTGA(tgaPayload, text)>>

ReportIdle ==
    /\ rpPayload = FlatPayload(MARN008)
    /\ rpReport = ReportOrThrow(rpPayload, TextOfReport)

\* ------------------------------------------------- server: getUocPayload
\* String.prototype.toUpperCase, one character
UpperOf(c) ==
    IF \E i \in DOMAIN LowerChars : LowerChars[i] = c
    THEN UpperChars[CHOOSE i \in DOMAIN LowerChars : LowerChars[i] = c]
    ELSE c

\* String(codeRaw || "").toUpperCase()
toUpperCase(codeRaw) == [i \in DOMAIN codeRaw |-> UpperOf(codeRaw[i])]

MARJ006 == <<"M","A","R","J","0","0","6">>
MARK007 == <<"M","A","R","K","0","0","7">>
MARC037 == <<"M","A","R","C","0","3","7">>
MARI003 == <<"M","A","R","I","0","0","3">>

MockTitle(code) ==
    IF code = MARN008
    THEN "Apply seamanship skills aboard a vessel up to 12 metres (Mock)"
    ELSE IF code = MARJ006 THEN "Follow environmental work practices (Mock)"
    ELSE IF code = MARK007 THEN "Handle a vessel up to 24 metres (Mock)"
    ELSE IF code = MARC037 THEN "Operate deck machinery (Mock)"
    ELSE "Comply with regulations to ensure safe operation (Mock)"

\* the built-in mocks, each with the first of its criteria and knowledge items
MOCKS ==
    [code \in {MARN008, MARJ006, MARK007, MARC037, MARI003} |->
        [unit |-> [code |-> code, title |-> MockTitle(code)],
         elementsAndPC |->
            IF code = MARN008
            THEN << [pcCode |-> "1.1",
                     description |-> "Maintain safe deck practices and housekeeping."] >>
            ELSE IF code = MARJ006
            THEN << [pcCode |-> "1.1",
                     description |-> "Identify environmental requirements in the work area."] >>
            ELSE IF code = MARK007
            THEN << [pcCode |-> "1.1",
                     description |-> "Plan and conduct basic manoeuvres considering wind and tide."] >>
            ELSE IF code = MARC037
            THEN << [pcCode |-> "1.1",
                     description |-> "Prepare, operate and secure windlass and capstan safely."] >>
            ELSE << [pcCode |-> "1.1",
                     description |-> "Identify applicable maritime regulations and codes."] >>,
         knowledgeEvidence |->
            IF code = MARN008
            THEN << "Basic seamanship terminology and safety practices." >>
            ELSE IF code = MARJ006
            THEN << "Company procedures for waste segregation and disposal." >>
            ELSE IF code = MARK007
            THEN << "Effects of wind, tide and current on vessel handling." >>
            ELSE IF code = MARC037
            THEN << "Safe working loads and risk controls for deck machinery." >>
            ELSE << "Key provisions of local marine safety legislation." >>]]

\* the mock made up for a code that has no built-in mock
GenericMock(code) ==
    [unit |-> [code |-> code, title |-> code \o <<" (Mock Unit for testing)">>],
     elementsAndPC |-> << [pcCode |-> "1.1", description |-> "Example performance criterion."],
                          [pcCode |-> "1.2", description |-> "Another performance criterion."] >>,
     knowledgeEvidence |-> << "Example knowledge item A.", "Example knowledge item B." >>]

\* the fallback without the look into MOCKS
MockForWithoutBuiltIn(code) == GenericMock(code)

\* MOCKS[code] || { ...generic... }
MockFor(code) == IF code \in DOMAIN MOCKS THEN MOCKS[code] ELSE GenericMock(code)

\* the registry's address of a unit; the codes looked up are letters and
\* digits, which encodeURIComponent leaves as they are
DetailsUrl(code) == <<"https://training.gov.au/Training/Details/">> \o code

\* { ...mock, url, source: "mock" }
FallbackPayload(code) ==
    [unit |-> MockFor(code).unit,
     elementsAndPC |-> MockFor(code).elementsAndPC,
     knowledgeEvidence |-> MockFor(code).knowledgeEvidence,
     url |-> DetailsUrl(code),
     source |-> "mock"]

\* what fetchFromTGA returns for a page it could read
LivePayload(code, page) ==
    [unit |-> [code |-> code, title |-> page.h1],
     url |-> DetailsUrl(code),
     elementsAndPC |-> page.elementsAndPC,
     knowledgeEvidence |-> page.knowledgeEvidence,
     source |-> "tga"]

\* pages of the registry that fetchFromTGA can read: status 200 and an h1
Pages ==
    { [h1 |-> "Unit of competency details",
       elementsAndPC |-> << [pcCode |-> "1.1", description |-> "Prepare for work."] >>,
       knowledgeEvidence |-> << "Workplace procedures." >>],
      [h1 |-> "Unit of competency details (superseded)",
       elementsAndPC |-> <<>>, knowledgeEvidence |-> <<>>] }

\* req.params.code of the calls made
RawCodes ==
    { <<>>, MARN008, <<"m","a","r","n","0","0","8">>,
      <<"b","s","b","O","P","S","2","0","1">> }

\* Map.prototype.has, get and set on a list of entries in insertion order
MapHas(m, k) == \E i \in DOMAIN m : m[i].key = k
MapGet(m, k) == m[CHOOSE i \in DOMAIN m : m[i].key = k].value
MapSet(m, k, v) ==
    IF MapHas(m, k)
    THEN [i \in DOMAIN m |-> IF m[i].key = k THEN [key |-> k, value |-> v] ELSE m[i]]
    ELSE Append(m, [key |-> k, value |-> v])

\* a call of the route: its parameter, the code getUocPayload made of it,
\* whether it awaits fetchFromTGA, how that fetch ended, and the answer sent
Answered(raw, code, live, status, body) ==
    [raw |-> raw, code |-> code, state |-> "answered", live |-> live,
     status |-> status, body |-> body]
Fetching(raw, code) ==
    [raw |-> raw, code |-> code, state |-> "fetching", live |-> "pending",
     status |-> 0, body |-> <<>>]

ServerIdle ==
    /\ cache = <<>>
    /\ requests = <<>>

\* GET /api/uoc/:code up to the await of getUocPayload
GetUoc(raw) ==
    /\ Len(requests) < MaxRequests
    /\ LET code == toUpperCase(raw)
       IN IF code = <<>>
          THEN \* throw new Error("No code"), caught by the route
               requests' = Append(requests,
                    Answered(raw, code, "none", 404,
                             [found |-> FALSE, code |-> raw, error |-> "No code"]))
          ELSE IF MapHas(cache, code)
          THEN requests' = Append(requests,
                    Answered(raw, code, "none", 200, MapGet(cache, code)))
          ELSE requests' = Append(requests, Fetching(raw, code))
    /\ UNCHANGED cache
    /\ UNCHANGED besideServer

\* fetchFromTGA resolves: cache.set(code, live); return live
FetchSucceeds(id, page) ==
    /\ requests[id].state = "fetching"
    /\ LET code == requests[id].code
           live == LivePayload(code, page)
       IN /\ cache' = MapSet(cache, code, live)
          /\ requests' = [requests EXCEPT
                ![id] = Answered(requests[id].raw, code, "ok", 200, live)]
    /\ UNCHANGED besideServer

\* fetchFromTGA rejects (no answer, status other than 200, no h1):
\* cache.set(code, payload); return payload
FetchFails(id) ==
    /\ requests[id].state = "fetching"
    /\ LET code == requests[id].code
           payload == FallbackPayload(code)
       IN /\ cache' = MapSet(cache, code, payload)
          /\ requests' = [requests EXCEPT
                ![id] = Answered(requests[id].raw, code, "failed", 200, payload)]
    /\ UNCHANGED besideServer

\* the Upload tab button
ShowUploadTab ==
    /\ ~RenderThrows
    /\ activeTab # "upload"
    /\ activeTab' = "upload"
    /\ published' = "none"
    /\ UNCHANGED <<assessmentFile, assessmentText, detectedUoCs, reports,
                   activeReportIdx, isProcessing, uploadError, uploads,
                   nextUpload, run>>
    /\ UNCHANGED besideClient

\* the Results tab button, disabled while there is no report
ShowResultsTab ==
    /\ ~RenderThrows
    /\ Len(reports) > 0
    /\ activeTab' = "results"
    /\ published' = "none"
    /\ UNCHANGED <<assessmentFile, assessmentText, detectedUoCs, reports,
                   activeReportIdx, isProcessing, uploadError, uploads,
                   nextUpload, run>>
    /\ UNCHANGED besideClient

\* handleUpload when the change event carries no file
HandleUploadNoFile ==
    /\ ~RenderThrows
    /\ activeTab = "upload"
    /\ uploadError' = ""
    /\ detectedUoCs' = <<>>
    /\ assessmentText' = <<>>
    /\ reports' = <<>>
    /\ activeReportIdx' = 0
    /\ published' = "none"
    /\ UNCHANGED <<activeTab, assessmentFile, isProcessing, uploads, nextUpload, run>>
    /\ UNCHANGED besideClient

\* handleUpload up to its await of fetch(/api/extract)
HandleUploadStart(file) ==
    /\ ~RenderThrows
    /\ activeTab = "upload"
    /\ nextUpload < MaxUploads
    /\ uploadError' = ""
    /\ detectedUoCs' = <<>>
    /\ assessmentText' = <<>>
    /\ reports' = <<>>
    /\ activeReportIdx' = 0
    /\ assessmentFile' = <<file>>
    /\ nextUpload' = nextUpload + 1
    /\ uploads' = uploads \cup {[id |-> nextUpload + 1, file |-> file]}
    /\ published' = "none"
    /\ UNCHANGED <<activeTab, isProcessing, run>>
    /\ UNCHANGED besideClient

\* handleUpload after the await: the response of upload u
HandleUploadResponse(u, outcome) ==
    /\ u \in uploads
    /\ uploads' = uploads \ {u}
    /\ IF outcome = "ok"
       THEN /\ detectedUoCs' = u.file.detected
            /\ assessmentText' = u.file.text
            /\ uploadError' = ""
       ELSE /\ uploadError' = IF outcome = "httpError"
                              THEN "Failed to process file"
                              ELSE "Network error while uploading file."
            /\ UNCHANGED <<detectedUoCs, assessmentText>>
    /\ published' = "none"
    /\ UNCHANGED <<activeTab, assessmentFile, reports, activeReportIdx,
                   isProcessing, nextUpload, run>>
    /\ UNCHANGED besideClient

\* the Validate button is rendered on the upload tab and disabled while
\* there is no file or a validation is processing
ValidateEnabled ==
    /\ ~RenderThrows
    /\ activeTab = "upload"
    /\ assessmentFile # <<>>
    /\ ~isProcessing

\* validate, the branch for no detected code
ValidateNoUoc ==
    /\ ValidateEnabled
    /\ Len(detectedUoCs) = 0
    /\ activeTab' = "results"
    /\ reports' = <<NoUocReport>>
    /\ published' = "noUoc"
    /\ UNCHANGED <<assessmentFile, assessmentText, detectedUoCs, activeReportIdx,
                   isProcessing, uploadError, uploads, nextUpload, run>>
    /\ UNCHANGED besideClient

\* validate up to its await: every lookup is issued
ValidateStart ==
    /\ ValidateEnabled
    /\ Len(detectedUoCs) # 0
    /\ isProcessing' = TRUE
    /\ activeTab' = "results"
    /\ run' = [active |-> TRUE, codes |-> detectedUoCs, text |-> assessmentText,
               outcomes |-> [i \in 1..Len(detectedUoCs) |-> Pending],
               order |-> <<>>]
    /\ published' = "none"
    /\ UNCHANGED <<assessmentFile, assessmentText, detectedUoCs, reports,
                   activeReportIdx, uploadError, uploads, nextUpload>>
    /\ UNCHANGED besideClient

\* the lookup of run.codes[i] settles
LookupSettles(i, outcome) ==
    /\ run.active
    /\ i \in DOMAIN run.outcomes
    /\ CanSettle(run, i)
    /\ outcome \in LookupOutcomes(run.codes[i])
    /\ run' = [run EXCEPT !.outcomes[i] = outcome, !.order = Append(@, i)]
    /\ published' = "none"
    /\ UNCHANGED <<activeTab, assessmentFile, assessmentText, detectedUoCs, reports,
                   activeReportIdx, isProcessing, uploadError, uploads, nextUpload>>
    /\ UNCHANGED besideClient

\* validate after the await with setIsProcessing(false) as the last
\* statement of the try block, no finally
ValidateFinishWithoutFinally ==
    /\ run.active
    /\ AllSettled(run)
    /\ IF MapThrows(run)
       THEN /\ published' = "throws"
            /\ UNCHANGED <<reports, activeReportIdx, isProcessing>>
       ELSE /\ reports' = perUnitReports(run)
            /\ activeReportIdx' = 0
            /\ published' = "lookups"
            /\ isProcessing' = FALSE
    /\ run' = [run EXCEPT !.active = FALSE]
    /\ UNCHANGED <<activeTab, assessmentFile, assessmentText, detectedUoCs,
                   uploadError, uploads, nextUpload>>
    /\ UNCHANGED besideClient

\* validate after the await, its finally block included
ValidateFinish ==
    /\ run.active
    /\ AllSettled(run)
    /\ IF MapThrows(run)
       THEN /\ published' = "throws"
            /\ UNCHANGED <<reports, activeReportIdx>>
       ELSE /\ reports' = perUnitReports(run)
            /\ activeReportIdx' = 0
            /\ published' = "lookups"
    /\ isProcessing' = FALSE
    /\ run' = [run EXCEPT !.active = FALSE]
    /\ UNCHANGED <<activeTab, assessmentFile, assessmentText, detectedUoCs,
                   uploadError, uploads, nextUpload>>
    /\ UNCHANGED besideClient

\* a button of the unit list, rendered with the results
SelectUnit(idx) ==
    /\ ~RenderThrows
    /\ activeTab = "results"
    /\ idx \in 0..(Len(reports) - 1)
    /\ activeReportIdx' = idx
    /\ published' = "none"
    /\ UNCHANGED <<activeTab, assessmentFile, assessmentText, detectedUoCs, reports,
                   isProcessing, uploadError, uploads, nextUpload, run>>
    /\ UNCHANGED besideClient

Init == ClientInit /\ CovIdle /\ ScoreIdle /\ ReportIdle /\ ServerIdle

Next ==
    \/ ShowUploadTab
    \/ ShowResultsTab
    \/ HandleUploadNoFile
    \/ \E file \in FilePool : HandleUploadStart(file)
    \/ \E u \in uploads, outcome \in UploadOutcomes : HandleUploadResponse(u, outcome)
    \/ ValidateNoUoc
    \/ ValidateStart
    \/ \E i \in 1..Len(run.outcomes) :
          \E outcome \in LookupOutcomes(run.codes[i]) : LookupSettles(i, outcome)
    \/ ValidateFinish
    \/ \E idx \in 0..(Len(reports) - 1) : SelectUnit(idx)

Spec == Init /\ [][Next]_vars

\* some lookup of the run settles
SomeLookupSettles ==
    \E i \in 1..Len(run.outcomes) :
        \E outcome \in LookupOutcomes(run.codes[i]) : LookupSettles(i, outcome)

\* the await of validate has resolved and its continuation is queued:
\* exactly the states in which ValidateFinish can be taken
ContinuationQueued == run.active /\ AllSettled(run)

\* The client where every lookup in flight settles in the end and the
\* continuation of validate runs once Promise.allSettled has resolved, as
\* the event loop runs every job that is queued.  The second condition is
\* weak fairness of ValidateFinish: that step is enabled exactly when
\* ContinuationQueued holds, always changes run, and always ends in a state
\* where ContinuationQueued is false, so WF_vars(ValidateFinish) is
\* []<>~ContinuationQueued.
SpecLive ==
    Spec /\ WF_vars(SomeLookupSettles) /\ []<>(~ContinuationQueued)

\* ------------------------------------------- coverageCheck on its own
K1 == <<"K", "1">>
K2 == <<"K", "2">>
K3 == <<"K", "3">>
PC1 == <<"P", "C", " ", "1">>

\* the characters of s with one space between them
RECURSIVE Spaced(_)
Spaced(s) ==
    IF Len(s) <= 1 THEN s ELSE <<Head(s), " ">> \o Spaced(Tail(s))

\* twenty one-letter words, none a stop word
Letters20 == <<"b","c","d","e","f","g","h","j","k","l",
               "m","n","p","q","r","s","t","u","v","w">>
TextSevenLetters == Spaced(SubSeq(Letters20, 1, 7))
TextSevenOfTwenty == Spaced(Letters20)
TextSixOfTwenty == Spaced([Letters20 EXCEPT ![7] = "x"])
TextKnotTwice == <<"k","n","o","t"," ","k","n","o","t"," ">> \o TextMastSailHull
N6 == <<"N", "6">>
N7 == <<"N", "7">>

CovTextPool == { <<>>, TextDeckKnot, TextTheKnotRope, TextSevenLetters }

CovTargetPool ==
    { [code |-> K1, text |-> TextDeck],
      [code |-> <<>>, text |-> TextKnotRope],
      [code |-> K2, text |-> TextStopOnly],
      [code |-> K3, text |-> <<>>],
      [code |-> PC1, text |-> TextMastSailHull],
      [code |-> N7, text |-> TextSevenOfTwenty],
      [code |-> N6, text |-> TextSixOfTwenty],
      [code |-> K2, text |-> TextKnotTwice] }

CovInit ==
    /\ ClientInit
    /\ covText \in CovTextPool
    /\ covTargets = <<>>
    /\ covResult = coverageCheck(covText, <<>>)
    /\ ScoreIdle /\ ReportIdle /\ ServerIdle

\* coverageCheck(covText, targets) for the list grown by one requirement
CovAppend(t) ==
    /\ Len(covTargets) < MaxTargets
    /\ covTargets' = Append(covTargets, t)
    /\ covResult' = coverageCheck(covText, covTargets')
    /\ UNCHANGED covText
    /\ UNCHANGED besideCov

CovNext == \E t \in CovTargetPool : CovAppend(t)

SpecCov == CovInit /\ [][CovNext]_vars

\* ------------------------------------------ the scores of one report
ScoreInit == ClientInit /\ CovIdle /\ ScoreIdle /\ ReportIdle /\ ServerIdle

\* the text covers one more performance criterion
CoverOneMorePc ==
    /\ scPc < 100
    /\ scPc' = scPc + 1
    /\ scReport' = ReportOfHundreds(scPc', scKe)
    /\ UNCHANGED scKe
    /\ UNCHANGED besideScore

\* the text covers one more knowledge item
CoverOneMoreKe ==
    /\ scKe < 100
    /\ scKe' = scKe + 1
    /\ scReport' = ReportOfHundreds(scPc, scKe')
    /\ UNCHANGED scPc
    /\ UNCHANGED besideScore

ScoreNext == CoverOneMorePc \/ CoverOneMoreKe

SpecScore == ScoreInit /\ [][ScoreNext]_vars

\* ------------------------------------- buildReportFromTGA on its own
ReportInit ==
    /\ ClientInit /\ CovIdle /\ ScoreIdle /\ ServerIdle
    /\ \E pcs \in PcListsAtStart, kes \in KeListsAtStart :
          rpPayload = PayloadOf(pcs, kes)
    /\ rpReport = ReportOrThrow(rpPayload, TextOfReport)

\* the payload with one more entry of elementsAndPC
AppendPc(kind) ==
    /\ rpPayload.pcShape = "array"
    /\ Len(rpPayload.elementsAndPC) \in
          (0..(MaxAppended - 1)) \cup (MissingAtStart..(MissingAtStart + MaxAppended - 1))
    /\ rpPayload' =
          [rpPayload EXCEPT !.elementsAndPC =
              Append(@, PcEntry(kind, Len(rpPayload.elementsAndPC) + 1))]
    /\ rpReport' = ReportOrThrow(rpPayload', TextOfReport)
    /\ UNCHANGED besideReport

\* the payload with one more entry of knowledgeEvidence
AppendKe(t) ==
    /\ rpPayload.keShape = "array"
    /\ Len(rpPayload.knowledgeEvidence) \in
          (0..(MaxAppended - 1)) \cup (MissingAtStart..(MissingAtStart + MaxAppended - 1))
    /\ rpPayload' = [rpPayload EXCEPT !.knowledgeEvidence = Append(@, t)]
    /\ rpReport' = ReportOrThrow(rpPayload', TextOfReport)
    /\ UNCHANGED besideReport

ReportNext ==
    \/ \E kind \in PcEntryKinds : AppendPc(kind)
    \/ \E t \in KeEntries : AppendKe(t)

SpecReport == ReportInit /\ [][ReportNext]_vars

\* ------------------------------------------------ the server on its own
ServerInit == ClientInit /\ CovIdle /\ ScoreIdle /\ ReportIdle /\ ServerIdle

ServerNext ==
    \/ \E raw \in RawCodes : GetUoc(raw)
    \/ \E id \in DOMAIN requests, page \in Pages : FetchSucceeds(id, page)
    \/ \E id \in DOMAIN requests : FetchFails(id)

SpecServer == ServerInit /\ [][ServerNext]_vars

\* ---------------------------------------------------- coverage claims
\* the requirements of covTargets that tokenize to nothing
SkippedTargets == { i \in DOMAIN covTargets : Len(tokenize(covTargets[i].text)) = 0 }

RemoveAt(s, i) == SubSeq(s, 1, i - 1) \o SubSeq(s, i + 1, Len(s))

\* C7: for every assessment text and requirement list, requirements with an
\* empty token list included, the missing list of coverageCheck is as long
\* as total - assessed.
C7_MissingIsTotalMinusAssessed ==
    Len(covResult.missing) = covResult.total - covResult.assessed

\* C8: a requirement whose tokenized text is empty is skipped entirely: total
\* counts only the requirements with a non-empty token list, and the result
\* is the result for the list with that requirement removed.
C8_EmptyRequirementSkipped ==
    /\ covResult.total = Len(covTargets) - Cardinality(SkippedTargets)
    /\ \A i \in SkippedTargets :
          covResult = coverageCheck(covText, RemoveAt(covTargets, i))

\* C9: for every assessment text and requirement list, the result of
\* coverageCheck has 0 <= assessed <= total.
C9_AssessedWithinTotal ==
    /\ 0 <= covResult.assessed
    /\ covResult.assessed <= covResult.total

\* C9 witness: a list of which some requirements are covered, one is missing
\* and one is skipped
C9_Witness ==
    /\ covResult.assessed >= 1
    /\ Len(covResult.missing) >= 1
    /\ SkippedTargets # {}

\* C10: the percentage of coverageCheck is assessed * 100 / total rounded to
\* the nearest integer (halves up) when total > 0 and 0 when total = 0, and so
\* an integer in 0..100.
C10_PercentageRounded ==
    LET p == covResult.percentage
        a == covResult.assessed
        t == covResult.total
    IN /\ p \in 0..100
       /\ t = 0 => p = 0
       /\ t > 0 => /\ 2 * t * p <= 200 * a + t
                   /\ 200 * a + t < 2 * t * (p + 1)

\* C10 witness: two of three requirements covered, 66.67 rounded up to 67
C10_Witness ==
    /\ covResult.total = 3
    /\ covResult.assessed = 2
    /\ covResult.percentage = 67

\* how many tokens of key, each occurrence counted, are among toks
HitCount(key, toks) == Cardinality({ k \in DOMAIN key : key[k] \in toks })

\* key has a token and at least 35 percent of its tokens are among toks
ReachesThreshold(key, toks) ==
    Len(key) > 0 /\ HitCount(key, toks) * 100 >= 35 * Len(key)

\* key has a token and fewer than 35 percent of its tokens are among toks
BelowThreshold(key, toks) ==
    Len(key) > 0 /\ HitCount(key, toks) * 100 < 35 * Len(key)

\* the labels of the first n requirements below the threshold, in order
RECURSIVE LabelsBelow(_, _, _)
LabelsBelow(n, keys, toks) ==
    IF n = 0 THEN <<>>
    ELSE LabelsBelow(n - 1, keys, toks)
         \o (IF BelowThreshold(keys[n], toks)
             THEN <<MissingLabel(covTargets[n])>> ELSE <<>>)

\* C11: a requirement with a non-empty token list is covered exactly when
\* (its tokens found in the text, duplicates counted each time) * 100 >=
\* 35 * (its tokens); the others have their label appended to missing, in
\* order.  7 of 20 is covered and 6 of 20 is missing.
C11_CoveredIffThreshold ==
    LET toks == Range(tokenize(covText))
        k1 == IF Len(covTargets) >= 1 THEN tokenize(covTargets[1].text) ELSE <<>>
        k2 == IF Len(covTargets) >= 2 THEN tokenize(covTargets[2].text) ELSE <<>>
        k3 == IF Len(covTargets) >= 3 THEN tokenize(covTargets[3].text) ELSE <<>>
        k4 == IF Len(covTargets) >= 4 THEN tokenize(covTargets[4].text) ELSE <<>>
        keys == <<k1, k2, k3, k4>>
        n == Len(covTargets)
    IN /\ n <= 4
       /\ covResult.assessed =
            Cardinality({ i \in 1..n : ReachesThreshold(keys[i], toks) })
       /\ covResult.missing = LabelsBelow(n, keys, toks)
       /\ \A i \in 1..n :
            Len(keys[i]) = 20 =>
              /\ HitCount(keys[i], toks) = 7 => ReachesThreshold(keys[i], toks)
              /\ HitCount(keys[i], toks) = 6 => BelowThreshold(keys[i], toks)

\* C11 witness: against the seven letters, the requirement with 7 of its 20
\* tokens present is covered and the one with 6 of 20 is missing
C11_Witness ==
    /\ covText = TextSevenLetters
    /\ covTargets = << [code |-> N7, text |-> TextSevenOfTwenty],
                       [code |-> N6, text |-> TextSixOfTwenty] >>
    /\ covResult.total = 2
    /\ covResult.assessed = 1
    /\ covResult.missing = <<N6>>

\* pc * 0.6 + ke * 0.4 in tenths, capped at 100 and then rounded half up
RoundOfMin(pc, ke) ==
    LET tenths == 6 * pc + 4 * ke
        capped == IF tenths > 1000 THEN 1000 ELSE tenths
    IN (capped + 5) \div 10

\* C12: for all percentages pc and ke in 0..100 the validity score is pc
\* with status pass from 85, warning from 70, else fail; the sufficiency
\* score is round(min(100, pc * 0.6 + ke * 0.4)) with status pass from 90,
\* warning from 75, else fail; the validity of the principles has the status
\* and score of the validity of the rules.
C12_ScoresAndStatuses ==
    LET rules == scReport.rulesOfEvidence
        suff == RoundOfMin(scPc, scKe)
    IN /\ scPc \in 0..100 /\ scKe \in 0..100
       /\ rules.validity.score = scPc
       /\ rules.validity.status =
            (IF scPc >= 85 THEN "pass" ELSE IF scPc >= 70 THEN "warning" ELSE "fail")
       /\ rules.sufficiency.score = suff
       /\ rules.sufficiency.status =
            (IF suff >= 90 THEN "pass" ELSE IF suff >= 75 THEN "warning" ELSE "fail")
       /\ scReport.principlesOfAssessment.validity = rules.validity

\* C12 witness: 85 and 97 percent give validity 85, pass, and sufficiency
\* round(89.8) = 90, pass
C12_Witness ==
    /\ scPc = 85 /\ scKe = 97
    /\ scReport.rulesOfEvidence.validity = [status |-> "pass", score |-> 85]
    /\ scReport.rulesOfEvidence.sufficiency = [status |-> "pass", score |-> 90]
    /\ scReport.principlesOfAssessment.validity = [status |-> "pass", score |-> 85]

\* C13: the gaps are a critical, HIGH gap for each of the first
\* min(5, len) missing performance-criteria labels in order, then an
\* improvement, MEDIUM gap for each of the first min(5, len) missing
\* knowledge labels in order; no knowledge gap comes before a
\* performance-criteria gap and there are at most 10 gaps.
C13_GapsCappedAndOrdered ==
    rpReport # <<>> =>
      LET r == rpReport[1]
          pm == r.coverage.performanceCriteria.missing
          km == r.coverage.knowledge.missing
          np == IF Len(pm) < 5 THEN Len(pm) ELSE 5
          nk == IF Len(km) < 5 THEN Len(km) ELSE 5
      IN /\ Len(r.gaps) = np + nk
         /\ Len(r.gaps) <= 10
         /\ \A i \in 1..np :
              /\ r.gaps[i].type = "critical"
              /\ r.gaps[i].priority = "HIGH"
              /\ r.gaps[i].element = pm[i]
         /\ \A j \in 1..nk :
              /\ r.gaps[np + j].type = "improvement"
              /\ r.gaps[np + j].priority = "MEDIUM"
              /\ r.gaps[np + j].element = km[j]
         /\ \A i, j \in DOMAIN r.gaps :
              (r.gaps[i].type = "improvement" /\ r.gaps[j].type = "critical") => j < i

\* C13 witness: six missing performance criteria and six missing knowledge
\* items give ten gaps
C13_Witness ==
    /\ rpReport # <<>>
    /\ Len(rpReport[1].coverage.performanceCriteria.missing) = 6
    /\ Len(rpReport[1].coverage.knowledge.missing) = 6
    /\ Len(rpReport[1].gaps) = 10
    /\ rpReport[1].gaps[5].type = "critical"
    /\ rpReport[1].gaps[6].type = "improvement"

\* the entries of list that have a pcCode and a description, each with the
\* label PC <pcCode>, in the order of the list
RECURSIVE ScoredPcs(_)
ScoredPcs(list) ==
    IF list = <<>> THEN <<>>
    ELSE LET p == Head(list)
         IN (IF p.pcCode = <<>> \/ p.description = <<>> THEN <<>>
             ELSE << [code |-> <<"P", "C", " ">> \o p.pcCode, text |-> p.description] >>)
            \o ScoredPcs(Tail(list))

\* one item for each of the first n entries of list, entry i labelled K<i>
RECURSIVE ScoredKes(_, _)
ScoredKes(list, n) ==
    IF n = 0 THEN <<>>
    ELSE Append(ScoredKes(list, n - 1),
                [code |-> <<"K">> \o ToDigits(n), text |-> list[n]])

\* C15: buildReportFromTGA scores exactly the entries of elementsAndPC that
\* have both pcCode and description, in their order, labelled PC <pcCode>,
\* and one item per entry of knowledgeEvidence labelled K<i> from 1; a list
\* that is missing is scored as the empty list, without an error.
C15_ScoredItems ==
    LET pcs == IF rpPayload.pcShape = "array" THEN rpPayload.elementsAndPC ELSE <<>>
        kes == IF rpPayload.keShape = "array" THEN rpPayload.knowledgeEvidence ELSE <<>>
    IN /\ (rpPayload.pcShape # "object" /\ rpPayload.keShape # "object")
            => rpReport # <<>>
       /\ rpReport # <<>> =>
            /\ rpReport[1].coverage.performanceCriteria
                  = coverageCheck(TextOfReport, ScoredPcs(pcs))
            /\ rpReport[1].coverage.knowledge
                  = coverageCheck(TextOfReport, ScoredKes(kes, Len(kes)))

\* C15 witness: a payload without knowledgeEvidence whose elementsAndPC has
\* an entry without description, which is left out, and then an entry not
\* covered, which keeps its label PC 2
C15_Witness ==
    /\ rpPayload.keShape = "absent"
    /\ Len(rpPayload.elementsAndPC) = 2
    /\ rpPayload.elementsAndPC[1].description = <<>>
    /\ rpPayload.elementsAndPC[2].description = TextMastSailHull
    /\ rpReport # <<>>
    /\ rpReport[1].coverage.performanceCriteria.total = 1
    /\ rpReport[1].coverage.performanceCriteria.missing = << <<"P", "C", " ", "2">> >>
    /\ rpReport[1].coverage.knowledge.total = 0

\* C17: every validate run that sets isProcessing to true sets it back to
\* false in the end, provided every lookup settles, whether the reports are
\* published or building them throws; isProcessing is never true when no
\* validate run is in flight.
C17_ProcessingEnds ==
    /\ [](isProcessing => run.active)
    /\ (isProcessing ~> ~isProcessing)

\* C17 witness: a run whose report building threw has ended and
\* isProcessing is false again
C17_Witness ==
    /\ published = "throws"
    /\ ~run.active
    /\ Len(run.outcomes) > 0
    /\ ~isProcessing

\* ------------------------------------------------------ server claims
\* C14: under any interleaving of concurrent lookups the cache holds at most
\* one entry per upper-cased code, and once an entry for a code has been
\* written no later write replaces it with a different payload.
C14_CacheEntryImmutable ==
    [][ /\ \A i, j \in DOMAIN cache' : cache'[i].key = cache'[j].key => i = j
        /\ \A i \in DOMAIN cache :
              \E j \in DOMAIN cache' : cache'[j] = cache[i] ]_vars

\* C16: getUocPayload never fails for a non-empty code.  A code in the cache
\* is answered with the cached payload without a live fetch; otherwise a
\* live fetch that succeeds is cached and returned, and one that fails has
\* the fallback cached and returned, the built-in mock of the code if there
\* is one, else the generic mock.  The unit.code of every payload returned is
\* the upper-cased requested code; only the empty code fails, with 404 and
\* found = false.
C16_NeverFailsForNonEmptyCode ==
    [][ \A i \in DOMAIN requests' :
          LET r == requests'[i]
              isNew == i \notin DOMAIN requests
              wasFetching == ~isNew /\ requests[i].state = "fetching"
              cachedBefore == \E k \in DOMAIN cache : cache[k].key = r.code
              cachedAfter == \E k \in DOMAIN cache' :
                                cache'[k] = [key |-> r.code, value |-> r.body]
          IN (isNew \/ requests[i] # r) =>
               /\ Len(r.code) = Len(r.raw)
               /\ \A c \in DOMAIN r.raw :
                     /\ r.code[c] \notin Range(LowerChars)
                     /\ r.code[c] # r.raw[c] =>
                           \E a \in DOMAIN LowerChars :
                              r.raw[c] = LowerChars[a] /\ r.code[c] = UpperChars[a]
               /\ (r.state = "answered" /\ r.status # 200) <=> (isNew /\ r.raw = <<>>)
               /\ (isNew /\ r.raw = <<>>) =>
                     r.status = 404 /\ r.body.found = FALSE /\ cache' = cache
               /\ (isNew /\ r.raw # <<>> /\ cachedBefore) =>
                     /\ r.state = "answered" /\ r.live = "none"
                     /\ \E k \in DOMAIN cache :
                           cache[k] = [key |-> r.code, value |-> r.body]
                     /\ cache' = cache
               /\ (isNew /\ r.raw # <<>> /\ ~cachedBefore) =>
                     r.state = "fetching" /\ cache' = cache
               /\ wasFetching =>
                     /\ r.state = "answered" /\ r.live \in {"ok", "failed"}
                     /\ cachedAfter
                     /\ r.live = "ok" => r.body.source = "tga"
                     /\ r.live = "failed" =>
                           /\ r.body.source = "mock"
                           /\ r.body.unit.title =
                                 (IF r.code = MARN008
                                  THEN "Apply seamanship skills aboard a vessel up to 12 metres (Mock)"
                                  ELSE r.code \o <<" (Mock Unit for testing)">>)
               /\ (r.state = "answered" /\ r.status = 200) =>
                     r.body.unit.code = r.code ]_vars

\* C16 witness: the live fetch for "bsbOPS201" failed and was answered with
\* the generic mock of BSBOPS201; a later call was answered from the cache
\* without a live fetch
C16_Witness ==
    /\ Len(requests) = 2
    /\ requests[1].raw = <<"b","s","b","O","P","S","2","0","1">>
    /\ requests[1].live = "failed"
    /\ requests[1].status = 200
    /\ requests[1].body.unit.code = BSBOPS201
    /\ requests[1].body.source = "mock"
    /\ requests[2].live = "none"
    /\ requests[2].status = 200
    /\ requests[2].body = requests[1].body

\* ------------------------------------------------------ client claims
\* C1: whenever the report collection is non-empty, the selection index is
\* a position of it: 0 <= activeReportIdx < length(reports).
C1_SelectionIndexValid ==
    Len(reports) > 0 => (0 <= activeReportIdx /\ activeReportIdx < Len(reports))

\* the lookup of an outcome failed: network error, non-OK response, empty
\* result, or a payload with found = false
OutcomeFailed(o) ==
    \/ o.kind = "neterror"
    \/ ~o.ok
    \/ o.body = <<>>
    \/ o.body[1].found = "false"

\* C2: a validate run over a non-empty list of codes publishes one report
\* per detected code, the report at position i being the one produced for
\* the i-th code, in whatever order the lookups completed.
C2_ReportOrderMatchesCodes ==
    published = "lookups" =>
        /\ Len(reports) = Len(run.codes)
        /\ \A i \in DOMAIN reports :
              /\ reports[i].unit.code = run.codes[i]
              /\ reports[i] = UnitReportAt(run, i)

\* C2 witness: two lookups that completed in the reverse of the order of the
\* codes, with different results
C2_Witness ==
    /\ published = "lookups"
    /\ run.order = <<2, 1>>
    /\ OutcomeFailed(run.outcomes[1])
    /\ ~OutcomeFailed(run.outcomes[2])

\* r is the standardized failure report for code
IsFailureReport(r, code) ==
    /\ r.unit.code = code
    /\ r.unit.title = "No TGA details available"
    /\ r.coverage.performanceCriteria = ZeroCoverage
    /\ r.coverage.knowledge = ZeroCoverage
    /\ r.rulesOfEvidence.validity = [status |-> "fail", score |-> 0]
    /\ r.rulesOfEvidence.sufficiency = [status |-> "fail", score |-> 0]
    /\ r.rulesOfEvidence.authenticity = [status |-> "warning", score |-> 50]
    /\ r.rulesOfEvidence.currency = [status |-> "warning", score |-> 50]
    /\ r.principlesOfAssessment.fairness = [status |-> "warning", score |-> 50]
    /\ r.principlesOfAssessment.flexibility = [status |-> "warning", score |-> 50]
    /\ r.principlesOfAssessment.validity = [status |-> "fail", score |-> 0]
    /\ r.principlesOfAssessment.reliability = [status |-> "warning", score |-> 50]
    /\ Len(r.gaps) = 1
    /\ r.gaps[1].type = "critical"
    /\ r.gaps[1].priority = "HIGH"

\* C3: in a published validate run the report at position i is the
\* standardized failure report exactly when the lookup of the i-th code
\* failed, and every other position holds the report built from that code's
\* payload.
C3_FailureReportIffLookupFailed ==
    published = "lookups" =>
        \A i \in DOMAIN reports :
            /\ IsFailureReport(reports[i], run.codes[i]) <=> OutcomeFailed(run.outcomes[i])
            /\ ~OutcomeFailed(run.outcomes[i]) =>
                  reports[i] = buildReportFromTGA(run.outcomes[i].body[1], run.text)

\* C3 witness: a run with a payload reporting found = false next to a
\* payload that scores a covered requirement
C3_Witness ==
    /\ published = "lookups"
    /\ Len(reports) = 2
    /\ run.outcomes[2].ok /\ run.outcomes[2].body # <<>>
    /\ run.outcomes[2].body[1].found = "false"
    /\ ~OutcomeFailed(run.outcomes[1])
    /\ reports[1].coverage.performanceCriteria.assessed >= 1

\* some lookup of the run in flight has not settled
SomePending == \E i \in DOMAIN run.outcomes : run.outcomes[i] = Pending

\* C4: while a lookup of the run is pending the report collection is not
\* written by the run (it only empties, on an upload), and every pending
\* lookup can settle whatever became of the others.
C4_PublishAfterAllSettled ==
    [][ (run.active /\ SomePending) =>
            /\ reports' = reports \/ reports' = <<>>
            /\ \A i \in DOMAIN run.outcomes :
                  run.outcomes[i] = Pending =>
                     ENABLED (\E o \in LookupOutcomes(run.codes[i]) : LookupSettles(i, o)) ]_vars

\* C4 witness: the first lookup failed while the second was pending, and the
\* second then succeeded and the run published
C4_Witness ==
    /\ published = "lookups"
    /\ run.order = <<1, 2>>
    /\ run.outcomes[1].kind = "neterror"
    /\ ~OutcomeFailed(run.outcomes[2])

\* C5: whenever validate has rebuilt the report collection, on either
\* branch, the selection index is 0.
C5_IndexResetOnRebuild ==
    published \in {"noUoc", "lookups"} => activeReportIdx = 0

StatusForced(e) == e.status \in {"fail", "warning"}

\* C6: validate with no detected code issues no lookup and publishes exactly
\* one report: unit code "N/A", all coverage zero, every rule and principle
\* fail or warning, one gap of type critical.
C6_NoUocReport ==
    [][ published' = "noUoc" =>
            /\ run' = run
            /\ Len(reports') = 1
            /\ LET r == reports'[1]
               IN /\ r.unit.code = <<"N", "/", "A">>
                  /\ r.coverage.performanceCriteria = ZeroCoverage
                  /\ r.coverage.knowledge = ZeroCoverage
                  /\ \A k \in {"validity", "sufficiency", "authenticity", "currency"} :
                        StatusForced(r.rulesOfEvidence[k])
                  /\ \A k \in {"fairness", "flexibility", "validity", "reliability"} :
                        StatusForced(r.principlesOfAssessment[k])
                  /\ Len(r.gaps) = 1
                  /\ r.gaps[1].type = "critical" ]_vars

\* C6 witness: validate has run on a file in which no code was detected
C6_Witness ==
    /\ published = "noUoc"
    /\ Len(detectedUoCs) = 0
    /\ assessmentText # <<>>
    /\ Len(reports) = 1

\* C18: when uploads overlap, the response of an earlier upload never
\* overwrites the state of a later one: once no upload is in flight,
\* detectedUoCs and assessmentText are those returned for the upload started
\* last, or empty; and a report collection that is not empty was computed
\* from the detectedUoCs and assessmentText currently held.
C18_LatestUploadWins ==
    /\ (uploads = {} /\ assessmentFile # <<>>) =>
          \/ detectedUoCs = <<>> /\ assessmentText = <<>>
          \/ /\ detectedUoCs = assessmentFile[1].detected
             /\ assessmentText = assessmentFile[1].text
    /\ Len(reports) > 0 =>
          \/ detectedUoCs = <<>> /\ reports = <<NoUocReport>>
          \/ /\ Len(detectedUoCs) > 0
             /\ run.codes = detectedUoCs
             /\ run.text = assessmentText
             /\ Len(reports) = Len(detectedUoCs)
             /\ \A i \in DOMAIN reports : reports[i].unit.code = detectedUoCs[i]

====
